---- MODULE Spec2Model ----
(***************************************************************************)
(* Model of avalon_miner_cli.py: one run of the command-line client.      *)
(* A run parses its arguments, constructs AvalonMinerAPI, executes one    *)
(* cmd_* function (which performs zero or more send_command round-trips)  *)
(* and ends in main's exit paths.                                         *)
(***************************************************************************)
EXTENDS Integers, Sequences, FiniteSets, TLC

VARIABLES
    pc,        \* control location of the run
    ip,        \* AvalonMinerAPI.ip (argv)
    op,        \* args.command: the subcommand main dispatches to
    args,      \* the argparse namespace handed to the cmd_* function
    gate,      \* confirmation gate of cmd_set_voltage / cmd_reboot
    cur,       \* (command, params) of the send_command call in progress
    opened,    \* sockets created so far (socket.socket)
    closed,    \* sockets closed so far (sock.close)
    sent,      \* commands written with sendall, in order
    rx,        \* send_command's local `response`: chunks appended so far, kept
               \* when the call raises and dropped when it returns
    eof,       \* whether recv returned b'' (peer closed) in that call
    k,         \* responses decoded and returned to the cmd_* function so far
    resp,      \* the section of interest of the last decoded response
    saved,     \* values the cmd_* function keeps from earlier responses
    verdict,   \* result of check_status, when the command evaluated it
    report,    \* what the cmd_* function printed about the response
    outcome,   \* how the run ended
    target,    \* (host, port) handed to the last sock.connect
    fn         \* a helper function applied on its own: its arguments and result

vars == <<pc, ip, op, args, gate, cur, opened, closed, sent, rx, eof, k, resp,
          saved, verdict, report, outcome, target, fn>>

-----------------------------------------------------------------------------
(* Bounds of the model *)

\* longest list a section carries
MaxList == 1
\* chunks counted in `response` beyond the first; the count saturates here
MaxExtra == 1
\* longest reply handed to the decode step on its own
MaxBytes == 5
\* longest MM ID0 text handed to parse_estats_field on its own
MaxPacked == 7
\* format_uptime is applied to every number of seconds up to this one
MaxSeconds == 120

-----------------------------------------------------------------------------
(* Program constants *)

DefaultPort == 4028
FanMin == 25
FanMax == 100
TempMin == 50
TempMax == 90
DelayMin == 0
DelayMax == 300
PoolMin == 0
PoolMax == 2

-----------------------------------------------------------------------------
(* Text: a Python str is a sequence of one-character strings *)

S_OK == <<"O", "K">>
S_ASC0SetOK == <<"A", "S", "C", " ", "0", " ", "s", "e", "t", " ", "O", "K">>
S_ErrInvalid == <<"E", "r", "r", "o", "r", ":", " ", "i", "n", "v", "a", "l", "i", "d">>
S_Broken == <<"B", "R", "O", "K", "E", "N">>
S_Unknown == <<"U", "n", "k", "n", "o", "w", "n">>
S_ASC0SetInfo == <<"A", "S", "C", " ", "0", " ", "s", "e", "t", " ", "i", "n", "f", "o", ":">>
S_yes == <<"y", "e", "s">>

\* `sub in s` for Python strings
PyIn(sub, s) ==
    \E i \in 0..(Len(s) - Len(sub)) :
        \A j \in 1..Len(sub) : s[i + j] = sub[j]

\* str.lower(), on the letters the modelled answers use
LowerChar(c) ==
    CASE c = "Y" -> "y"
      [] c = "E" -> "e"
      [] c = "S" -> "s"
      [] c = "N" -> "n"
      [] c = "O" -> "o"
      [] OTHER -> c

PyLower(s) == [i \in 1..Len(s) |-> LowerChar(s[i])]

-----------------------------------------------------------------------------
(* JSON values.  A dict is modelled by the one key the command reads from  *)
(* it (Msg of STATUS, MM ID0 of STATS, ...) and whether it has other keys. *)

NoText == << >>

Texts == {S_ASC0SetOK, S_ErrInvalid, S_Broken}

Dicts ==
    {[has |-> TRUE, val |-> t, other |-> o] : t \in Texts, o \in BOOLEAN}
    \cup {[has |-> FALSE, val |-> NoText, other |-> o] : o \in BOOLEAN}

EmptyDict == [has |-> FALSE, val |-> NoText, other |-> FALSE]

RECURSIVE SeqsUpTo(_, _)
SeqsUpTo(S, n) ==
    IF n = 0 THEN {<< >>}
    ELSE LET shorter == SeqsUpTo(S, n - 1)
         IN shorter \cup {Append(s, x) : s \in {q \in shorter : Len(q) = n - 1}, x \in S}

\* the value a response holds under a section key: no key, a list, an object
Missing == [t |-> "missing", items |-> << >>, d |-> EmptyDict]
ListOf(items) == [t |-> "list", items |-> items, d |-> EmptyDict]
Bare(d) == [t |-> "dict", items |-> << >>, d |-> d]

Sections ==
    {Missing}
    \cup {ListOf(s) : s \in SeqsUpTo(Dicts, MaxList)}
    \cup {Bare(d) : d \in Dicts}

\* len(d) of a dict
PyLenDict(d) == (IF d.has THEN 1 ELSE 0) + (IF d.other THEN 1 ELSE 0)

\* len(response[X]) for a present section
PyLen(sec) == IF sec.t = "list" THEN Len(sec.items) ELSE PyLenDict(sec.d)

\* d.get(key, default) for the modelled key
DictGet(d, default) == IF d.has THEN d.val ELSE default

-----------------------------------------------------------------------------
(* Parameter strings *)

DigitChar(d) ==
    CASE d = 0 -> "0" [] d = 1 -> "1" [] d = 2 -> "2" [] d = 3 -> "3" [] d = 4 -> "4"
      [] d = 5 -> "5" [] d = 6 -> "6" [] d = 7 -> "7" [] d = 8 -> "8" [] d = 9 -> "9"

RECURSIVE NatStr(_)
NatStr(n) == IF n < 10 THEN <<DigitChar(n)>> ELSE NatStr(n \div 10) \o <<DigitChar(n % 10)>>

\* str(n) / f"{n}" for a Python int
IntStr(n) == IF n < 0 THEN <<"-">> \o NatStr(0 - n) ELSE NatStr(n)

P_FanAuto == <<"0", ",", "f", "a", "n", "-", "s", "p", "d", ",", "-", "1">>
P_FanSpd == <<"0", ",", "f", "a", "n", "-", "s", "p", "d", ",">>
P_DotDot == <<".", ".">>
P_WorkMode == <<"0", ",", "w", "o", "r", "k", "m", "o", "d", "e", ",", "s", "e", "t", ",">>
P_TargetTemp == <<"0", ",", "t", "a", "r", "g", "e", "t", "-", "t", "e", "m", "p", ",">>
P_Voltage == <<"0", ",", "v", "o", "l", "t", "a", "g", "e", ",">>
P_ReadVoltage == <<"0", ",", "v", "o", "l", "t", "a", "g", "e">>
P_Reboot == <<"0", ",", "r", "e", "b", "o", "o", "t", ",">>
P_FilterClean == <<"0", ",", "f", "i", "l", "t", "e", "r", "-", "c", "l", "e", "a", "n", ",", "1">>
P_Admin == <<"a", "d", "m", "i", "n", ",">>
P_Comma == <<",">>
NoParams == << >>

-----------------------------------------------------------------------------
(* Section access, as the cmd_* functions write it *)

\* 'X' in response and len(response['X']) > 0
Present(sec) == sec.t # "missing" /\ PyLen(sec) > 0

\* response['X'][0] if isinstance(response['X'], list) else response['X']
\* (evaluated only where Present holds)
FirstOrSelf(sec) == IF sec.t = "list" THEN sec.items[1] ELSE sec.d

\* the result of a Python expression: the exception it raises, or its value
Raised(e) == [exc |-> e, v |-> EmptyDict]
Value(d) == [exc |-> "none", v |-> d]

\* response['X'][0] of a present key, with no isinstance test
Subscript0(sec) ==
    IF sec.t = "list"
    THEN (IF Len(sec.items) > 0 THEN Value(sec.items[1]) ELSE Raised("IndexError"))
    ELSE Raised("KeyError")

CheckStatusExactOnly(sec) ==
    /\ Present(sec)
    /\ PyIn(S_ASC0SetOK, DictGet(FirstOrSelf(sec), NoText))

\* check_status(response)
check_status(sec) ==
    /\ Present(sec)
    /\ LET status_msg == DictGet(FirstOrSelf(sec), NoText)
       IN PyIn(S_ASC0SetOK, status_msg) \/ PyIn(S_OK, status_msg)

\* the result of a Python expression yielding text
RaisedT(e) == [exc |-> e, text |-> NoText]
TextOf(t) == [exc |-> "none", text |-> t]

\* response.get('STATUS', {}).get('Msg', 'Unknown')
NaiveStatusMsg(sec) ==
    CASE sec.t = "missing" -> TextOf(S_Unknown)
      [] sec.t = "list" -> RaisedT("AttributeError")
      [] sec.t = "dict" -> TextOf(DictGet(sec.d, S_Unknown))

\* cmd_set_work_mode: status = response.get('STATUS', [{}])[0]
\*   if isinstance(response.get('STATUS'), list) else response.get('STATUS', {})
WorkModeStatusMsg(sec) ==
    CASE sec.t = "missing" -> TextOf(S_Unknown)
      [] sec.t = "list" ->
            IF Len(sec.items) > 0
            THEN TextOf(DictGet(sec.items[1], S_Unknown))
            ELSE RaisedT("IndexError")
      [] sec.t = "dict" -> TextOf(DictGet(sec.d, S_Unknown))

-----------------------------------------------------------------------------
(* What a cmd_* function prints about a response *)

NoReport == [kind |-> "none", text |-> NoText, objs |-> << >>]
SuccessLine == [kind |-> "success", text |-> NoText, objs |-> << >>]
CommandResponse(t) == [kind |-> "command_response", text |-> t, objs |-> << >>]
ResponseLine(t) == [kind |-> "response", text |-> t, objs |-> << >>]
SectionReport(ds) == [kind |-> "section", text |-> NoText, objs |-> ds]
ErrorLine == [kind |-> "error_line", text |-> NoText, objs |-> << >>]
ReceivedLine == [kind |-> "received", text |-> NoText, objs |-> << >>]

\* how a cmd_* function ends: normally ("ok") or with the exception it raises
Res(o, v, r) == [outcome |-> o, verdict |-> v, report |-> r]

-----------------------------------------------------------------------------
(* Inputs: argv, and what the operator types at a confirmation prompt *)

\* an argparse option that was not given is None
None == << >>
Some(x) == <<x>>

IPs == {"192.168.1.100", "8.8.8.8", "miner.local"}

Ops ==
    {"version", "summary", "estats", "lcd", "pools", "info",
     "set-fan", "get-fan", "set-work-mode", "get-work-mode",
     "set-target-temp", "get-target-temp", "get-voltage", "set-voltage",
     "reboot", "reset-filter-clean", "set-pool", "enable-pool",
     "disable-pool", "switch-pool", "set-pool-priority"}

SpeedValues == {FanMin - 1, FanMin, FanMax, FanMax + 1}
ModeValues == {0 - 1, 0, 1, 2, 3}
TemperatureValues == {TempMin - 1, TempMin, TempMax, TempMax + 1}
VoltageValues == {0, 1200}
DelayValues == {DelayMin - 1, DelayMin, 5, DelayMax, DelayMax + 1}
PoolIdValues == {PoolMin - 1, PoolMin, 1, PoolMax, PoolMax + 1}
\* --priority: "1,0", "0", "3", "1, 0" and the empty text
PriorityValues ==
    {<<"1", ",", "0">>, <<"0">>, <<"3">>, <<"1", ",", " ", "0">>, << >>}

\* what is typed at the prompt: yes, YES, Yes, no, y and the empty line
Answers ==
    {<<"y", "e", "s">>, <<"Y", "E", "S">>, <<"Y", "e", "s">>, <<"n", "o">>, <<"y">>, << >>}

DefaultArgs ==
    [auto |-> FALSE, speed |-> None, min_speed |-> None, max_speed |-> None,
     port |-> DefaultPort, mode |-> 0, temperature |-> 0, voltage |-> 0, delay |-> 0, force |-> FALSE,
     pool_id |-> 0, priority |-> NoText,
     password |-> <<"p", "w">>, url |-> <<"u", "r", "l">>,
     username |-> <<"w", "k">>, pool_password |-> <<"x">>]

OptSpeeds == {None} \cup {Some(v) : v \in SpeedValues}

ArgsOf(o) ==
    CASE o = "set-fan" ->
            {[DefaultArgs EXCEPT !.auto = a, !.speed = s, !.min_speed = lo, !.max_speed = hi] :
                a \in BOOLEAN, s \in OptSpeeds, lo \in OptSpeeds, hi \in OptSpeeds}
      [] o = "set-work-mode" -> {[DefaultArgs EXCEPT !.mode = m] : m \in ModeValues}
      [] o = "set-target-temp" ->
            {[DefaultArgs EXCEPT !.temperature = t] : t \in TemperatureValues}
      [] o = "set-voltage" ->
            {[DefaultArgs EXCEPT !.voltage = v, !.force = f] : v \in VoltageValues, f \in BOOLEAN}
      [] o = "reboot" ->
            {[DefaultArgs EXCEPT !.delay = d, !.force = f] : d \in DelayValues, f \in BOOLEAN}
      [] o \in {"set-pool", "enable-pool", "disable-pool", "switch-pool"} ->
            {[DefaultArgs EXCEPT !.pool_id = i] : i \in PoolIdValues}
      [] o = "set-pool-priority" ->
            {[DefaultArgs EXCEPT !.priority = q] : q \in PriorityValues}
      [] OTHER -> {DefaultArgs}

NoCall == [command |-> "", params |-> NoParams]
NoGate == [state |-> "none", answer |-> NoText]
NoTarget == [ip |-> "", port |-> 0]
\* no helper function is being applied on its own
NoFn == [f |-> "none", n |-> 0, text |-> NoText, name |-> NoText, done |-> FALSE,
         out |-> [kind |-> "none", text |-> NoText]]

Init ==
    /\ pc = "argv"
    /\ ip \in IPs
    /\ op \in Ops
    /\ args \in ArgsOf(op)
    /\ gate = NoGate
    /\ cur = NoCall
    /\ opened = 0
    /\ closed = 0
    /\ sent = << >>
    /\ rx = 0
    /\ eof = FALSE
    /\ k = 0
    /\ resp = Missing
    /\ saved = << >>
    /\ verdict = "none"
    /\ report = NoReport
    /\ outcome = "none"
    /\ target = NoTarget
    /\ fn = NoFn

-----------------------------------------------------------------------------
(* Results of the cmd_* functions' response handling *)

\* cmd_version
VersionResult(sec) ==
    IF Present(sec)
    THEN LET ver == Subscript0(sec)
         IN IF ver.exc = "none"
            THEN Res("ok", "none", SectionReport(<<ver.v>>))
            ELSE Res(ver.exc, "none", NoReport)
    ELSE Res("ok", "none", NoReport)

\* cmd_lcd
LcdResult(sec) ==
    IF Present(sec)
    THEN Res("ok", "none", SectionReport(<<FirstOrSelf(sec)>>))
    ELSE Res("ok", "none", NoReport)

\* cmd_pools: for pool in response['POOLS']: pool.get(...)
PoolsResult(sec) ==
    CASE sec.t = "missing" -> Res("ok", "none", NoReport)
      [] sec.t = "list" -> Res("ok", "none", SectionReport(sec.items))
      [] sec.t = "dict" ->
            IF PyLenDict(sec.d) > 0
            THEN Res("AttributeError", "none", NoReport)
            ELSE Res("ok", "none", SectionReport(<< >>))

EstatsReadResultNoKeyTest(sec) ==
    IF sec.t = "missing" THEN Res("KeyError", "none", NoReport)
    ELSE IF PyLen(sec) > 0
    THEN Res("ok", "none", SectionReport(<<FirstOrSelf(sec)>>))
    ELSE Res("ok", "none", NoReport)

\* cmd_get_fan, cmd_get_work_mode, cmd_get_target_temp
EstatsReadResult(sec) ==
    IF Present(sec)
    THEN LET stats == FirstOrSelf(sec)
             mm_id0 == DictGet(stats, NoText)
         IN IF mm_id0 # NoText
            THEN Res("ok", "none", SectionReport(<<stats>>))
            ELSE Res("ok", "none", ErrorLine)
    ELSE Res("ok", "none", NoReport)

\* cmd_set_fan_speed, cmd_set_target_temp, cmd_set_voltage, cmd_reboot,
\* cmd_reset_filter_clean
SetResult(sec) ==
    IF check_status(sec)
    THEN Res("ok", "success", SuccessLine)
    ELSE LET m == NaiveStatusMsg(sec)
         IN IF m.exc = "none"
            THEN Res("ok", "failure", CommandResponse(m.text))
            ELSE Res(m.exc, "failure", NoReport)

\* cmd_set_work_mode
WorkModeResult(sec) ==
    IF check_status(sec)
    THEN Res("ok", "success", SuccessLine)
    ELSE LET m == WorkModeStatusMsg(sec)
         IN IF m.exc = "none"
            THEN Res("ok", "failure", CommandResponse(m.text))
            ELSE Res(m.exc, "failure", NoReport)

\* cmd_set_pool, cmd_enable_pool, cmd_disable_pool, cmd_switch_pool,
\* cmd_set_pool_priority
PoolCommandResult(sec) ==
    IF Present(sec)
    THEN Res("ok", "none", ResponseLine(DictGet(FirstOrSelf(sec), S_Unknown)))
    ELSE Res("ok", "none", NoReport)

\* cmd_get_voltage
GetVoltageResult(sec) ==
    IF Present(sec)
    THEN LET msg == DictGet(FirstOrSelf(sec), NoText)
         IN IF PyIn(S_ASC0SetInfo, msg)
            THEN Res("ok", "none", ResponseLine(msg))
            ELSE Res("ok", "none", NoReport)
    ELSE Res("ok", "none", NoReport)

-----------------------------------------------------------------------------
(* Parameter validation and the parameter strings built from args *)

Plan(p) == [ok |-> TRUE, params |-> p]
Rejected == [ok |-> FALSE, params |-> NoParams]

FanSpeedInRangeNoLowerBound(s) == s <= FanMax

\* 25 <= speed <= 100
FanSpeedInRange(s) == FanMin <= s /\ s <= FanMax

\* cmd_set_fan_speed, up to the call
FanPlan(a) ==
    IF a.auto
    THEN Plan(P_FanAuto)
    ELSE IF a.speed # None
    THEN (IF ~FanSpeedInRange(a.speed[1])
          THEN Rejected
          ELSE Plan(P_FanSpd \o IntStr(a.speed[1])))
    ELSE IF a.min_speed # None /\ a.max_speed # None
    THEN (IF ~(FanSpeedInRange(a.min_speed[1]) /\ FanSpeedInRange(a.max_speed[1]))
          THEN Rejected
          ELSE IF a.min_speed[1] > a.max_speed[1]
          THEN Rejected
          ELSE Plan(P_FanSpd \o IntStr(a.min_speed[1]) \o P_DotDot \o IntStr(a.max_speed[1])))
    ELSE Rejected

\* args.mode not in [0, 1, 2]
WorkModeValid(m) == m \in {0, 1, 2}

\* 50 <= args.temperature <= 90
TemperatureInRange(t) == TempMin <= t /\ t <= TempMax

\* 0 <= args.delay <= 300
DelayInRange(d) == DelayMin <= d /\ d <= DelayMax

\* 0 <= args.pool_id <= 2
PoolIdValid(i) == PoolMin <= i /\ i <= PoolMax

\* str.split(',')
RECURSIVE SplitComma(_)
SplitComma(s) ==
    IF \A i \in 1..Len(s) : s[i] # ","
    THEN <<s>>
    ELSE LET i == CHOOSE i \in 1..Len(s) : s[i] = "," /\ \A j \in 1..(i - 1) : s[j] # ","
         IN <<SubSeq(s, 1, i - 1)>> \o SplitComma(SubSeq(s, i + 1, Len(s)))

IsSpace(c) == c \in {" ", "\t", "\n", "\r"}

\* str.strip()
RECURSIVE PyStrip(_)
PyStrip(s) ==
    IF s = << >> THEN s
    ELSE IF IsSpace(s[1]) THEN PyStrip(Tail(s))
    ELSE IF IsSpace(s[Len(s)]) THEN PyStrip(SubSeq(s, 1, Len(s) - 1))
    ELSE s

\* all(p.strip() in ['0', '1', '2'] for p in priorities)
PriorityValid(q) ==
    LET priorities == SplitComma(q)
    IN \A i \in 1..Len(priorities) : PyStrip(priorities[i]) \in {<<"0">>, <<"1">>, <<"2">>}

\* f"admin,{password},{pool_id},{url},{username},{pool_password}"
SetPoolParams(a) ==
    P_Admin \o a.password \o P_Comma \o IntStr(a.pool_id) \o P_Comma \o a.url
        \o P_Comma \o a.username \o P_Comma \o a.pool_password

-----------------------------------------------------------------------------
(* The confirmation gate of cmd_set_voltage and cmd_reboot *)

\* confirm.lower() != 'yes' cancels
GateAfter(answer) ==
    IF PyLower(answer) # S_yes
    THEN [state |-> "Cancelled", answer |-> answer]
    ELSE [state |-> "Confirmed", answer |-> answer]

Bypassed == [state |-> "Bypassed", answer |-> NoText]
Awaiting == [state |-> "AwaitingConfirmation", answer |-> NoText]

ProceedsAlways(g) == TRUE

\* `return` after "Operation cancelled": only a gate that did not cancel
\* reaches send_command
Proceeds(g) == g.state # "Cancelled"

-----------------------------------------------------------------------------
(* main: construction of the client *)

\* ipaddress.ip_address(self.ip) accepts the text
IsIPLiteral(a) == a \in {"192.168.1.100", "8.8.8.8"}

\* ip_obj.is_private
IsPrivate(a) == a \in {"192.168.1.100"}

ValidateIPRaisesLiteralOnly(a) == ~IsIPLiteral(a)

\* AvalonMinerAPI._validate_ip raises ValueError
ValidateIPRaises(a) == ~IsIPLiteral(a) \/ ~IsPrivate(a)

\* steps shared by the actions
Call(command, params) ==
    /\ pc' = "call"
    /\ cur' = [command |-> command, params |-> params]
    /\ UNCHANGED <<fn, target, ip, op, args, opened, closed, sent, rx, eof, k, resp, verdict,
                   report, outcome>>

Exit(o) ==
    /\ pc' = "done"
    /\ outcome' = o
    /\ UNCHANGED <<fn, target, ip, op, args, cur, opened, closed, sent, rx, eof, k, resp,
                   verdict, report>>

Finish(res) ==
    /\ pc' = "done"
    /\ outcome' = res.outcome
    /\ verdict' = res.verdict
    /\ report' = res.report
    /\ UNCHANGED <<fn, target, ip, op, args, gate, cur, opened, closed, sent, rx, eof, k, resp>>

\* parser.parse_args() ends the run with status 2: a choices=[0, 1, 2] option
\* holds another value, or the required mutually exclusive group of set-fan
\* (--auto | --speed) has none or both of its options
ArgparseRejects(o, a) ==
    CASE o = "set-fan" -> (a.auto /\ a.speed # None) \/ (~a.auto /\ a.speed = None)
      [] o = "set-work-mode" -> a.mode \notin {0, 1, 2}
      [] o \in {"set-pool", "enable-pool", "disable-pool", "switch-pool"} ->
            a.pool_id \notin {0, 1, 2}
      [] OTHER -> FALSE

\* main: args = parser.parse_args()
Main_parse_args ==
    /\ pc = "argv"
    /\ IF ArgparseRejects(op, args)
       THEN Exit("usage")
       ELSE /\ pc' = "start"
            /\ UNCHANGED <<fn, target, ip, op, args, cur, opened, closed, sent, rx, eof, k,
                           resp, verdict, report, outcome>>
    /\ UNCHANGED <<gate, saved>>

\* main: api = AvalonMinerAPI(args.ip, args.port, args.timeout)
Main_construct ==
    /\ pc = "start"
    /\ IF ValidateIPRaises(ip)
       THEN Exit("invalid_ip")
       ELSE /\ pc' = "cmd"
            /\ UNCHANGED <<fn, target, ip, op, args, cur, opened, closed, sent, rx, eof, k, resp,
                           verdict, report, outcome>>
    /\ UNCHANGED <<gate, saved>>

-----------------------------------------------------------------------------
(* AvalonMinerAPI.send_command *)

InfoCommandsSpecOrder == <<"version", "estats", "summary", "lcd">>

\* the four send_command calls of cmd_info, in program order
InfoCommands == <<"version", "lcd", "summary", "estats">>

\* bytes of a reply: the NUL byte, and a byte that is not valid UTF-8
NUL == "\\0"
BadByte == "\\xff"

\* the JSON document of a reply, its members left out
JsonText == <<"{", "}">>

\* str.rstrip('\x00')
RECURSIVE RStripNul(_)
RStripNul(s) ==
    IF s # << >> /\ s[Len(s)] = NUL THEN RStripNul(SubSeq(s, 1, Len(s) - 1)) ELSE s

\* json.loads accepts the text: the document, with JSON whitespace allowed
\* around it and between its braces, and nothing else
JsonLoadsAccepts(t) ==
    LET u == PyStrip(t)
    IN /\ Len(u) >= 2
       /\ u[1] = "{"
       /\ u[Len(u)] = "}"
       /\ \A i \in 2..(Len(u) - 1) : IsSpace(u[i])

\* response.decode('utf-8').rstrip('\x00').strip() and json.loads: the
\* exception raised, or "none"
Decode(bytes) ==
    IF \E i \in 1..Len(bytes) : bytes[i] = BadByte
    THEN "UnicodeDecodeError"
    ELSE IF JsonLoadsAccepts(PyStrip(RStripNul(bytes))) THEN "none" ELSE "JSONDecodeError"

\* the except clauses of send_command, for an exception of the decode step
RaisedAs(e) ==
    CASE e = "none" -> "none"
      [] e = "JSONDecodeError" -> "ValueError"
      [] OTHER -> "Exception"

\* what the bytes in `response` turn out to be when they are decoded
WireReplies ==
    {[kind |-> "json", sec |-> x] : x \in Sections}
    \cup {[kind |-> w, sec |-> Missing] :
             w \in {"not_json", "padding_only", "nul_then_newline", "bad_utf8"}}

\* the bytes of a reply of each kind
BytesOf(kind) ==
    CASE kind = "json" -> JsonText \o <<NUL>>
      [] kind = "not_json" -> <<"x">>
      [] kind = "padding_only" -> <<" ", NUL>>
      [] kind = "nul_then_newline" -> JsonText \o <<NUL, "\n">>
      [] kind = "bad_utf8" -> <<BadByte>>

\* the decode step of send_command on `response` (n chunks were appended):
\* the exception send_command raises, or "none"
DecodeOutcome(n, w) ==
    RaisedAs(Decode(IF n = 0 THEN << >> ELSE BytesOf(w.kind)))

\* a connect that is tried a second time when the first attempt fails
SockConnectRetriedOnce ==
    /\ pc = "call"
    /\ opened' = opened + 1
    /\ target' = [ip |-> ip, port |-> args.port]
    /\ \E r \in {"ok", "timeout", "refused"} :
          IF r = "ok"
          THEN pc' = "connected" /\ outcome' = outcome
          ELSE IF opened = k
          THEN pc' = "call" /\ outcome' = outcome
          ELSE pc' = "done" /\ outcome' = "ConnectionError"
    /\ UNCHANGED <<fn, ip, op, args, gate, cur, closed, sent, rx, eof, k, resp, saved,
                   verdict, report>>

\* sock = socket.socket(...); sock.settimeout(...); sock.connect(...)
Sock_connect ==
    /\ pc = "call"
    /\ opened' = opened + 1
    /\ target' = [ip |-> ip, port |-> args.port]
    /\ \E r \in {"ok", "timeout", "refused"} :
          IF r = "ok"
          THEN pc' = "connected" /\ outcome' = outcome
          ELSE pc' = "done" /\ outcome' = "ConnectionError"
    /\ UNCHANGED <<fn, ip, op, args, gate, cur, closed, sent, rx, eof, k, resp, saved,
                   verdict, report>>

\* sock.sendall(json_cmd.encode('utf-8')); time.sleep(0.1); response = b''
Sock_sendall ==
    /\ pc = "connected"
    /\ \E r \in {"ok", "timeout", "error"} :
          IF r = "ok"
          THEN /\ pc' = "recv"
               /\ sent' = Append(sent, cur)
               /\ rx' = 0
               /\ eof' = FALSE
               /\ outcome' = outcome
          ELSE /\ pc' = "done"
               /\ outcome' = "ConnectionError"
               /\ UNCHANGED <<sent, rx, eof>>
    /\ UNCHANGED <<fn, target, ip, op, args, gate, cur, opened, closed, k, resp, saved, verdict,
                   report>>

\* chunk = sock.recv(4096), with its three ways out of the loop body
Sock_recv ==
    /\ pc = "recv"
    /\ \E r \in {"chunk", "empty", "timeout", "error"} :
          CASE r = "chunk" -> pc' = "append" /\ UNCHANGED <<eof, outcome>>
            [] r = "empty" -> pc' = "close" /\ eof' = TRUE /\ outcome' = outcome
            [] r = "timeout" -> pc' = "close" /\ UNCHANGED <<eof, outcome>>
            [] r = "error" -> pc' = "done" /\ outcome' = "ConnectionError" /\ eof' = eof
    /\ UNCHANGED <<fn, target, ip, op, args, gate, cur, opened, closed, sent, rx, k, resp, saved,
                   verdict, report>>

\* response += chunk, and back to the top of `while True`
Sock_append ==
    /\ pc = "append"
    /\ rx' = IF rx < MaxExtra + 1 THEN rx + 1 ELSE rx
    /\ pc' = "recv"
    /\ UNCHANGED <<fn, target, ip, op, args, gate, cur, opened, closed, sent, eof, k, resp, saved,
                   verdict, report, outcome>>

\* sock.close(); decode; return json.loads(response_str)
Sock_close_decode ==
    /\ pc = "close"
    /\ closed' = closed + 1
    /\ \E w \in WireReplies :
          LET e == DecodeOutcome(rx, w)
          IN IF e = "none"
             THEN /\ pc' = "ret"
                  /\ k' = k + 1
                  /\ resp' = w.sec
                  /\ rx' = 0
                  /\ eof' = FALSE
                  /\ outcome' = outcome
             ELSE /\ pc' = "done"
                  /\ outcome' = e
                  /\ UNCHANGED <<k, resp, rx, eof>>
    /\ UNCHANGED <<fn, target, ip, op, args, gate, cur, opened, sent, saved, verdict, report>>

-----------------------------------------------------------------------------
(* The cmd_* functions: from entry to the first send_command call *)

Enter(o) == pc = "cmd" /\ op = o

Cmd_version == Enter("version") /\ Call("version", NoParams) /\ UNCHANGED <<gate, saved>>

Cmd_summary == Enter("summary") /\ Call("summary", NoParams) /\ UNCHANGED <<gate, saved>>

Cmd_estats == Enter("estats") /\ Call("estats", NoParams) /\ UNCHANGED <<gate, saved>>

Cmd_lcd == Enter("lcd") /\ Call("lcd", NoParams) /\ UNCHANGED <<gate, saved>>

Cmd_pools == Enter("pools") /\ Call("pools", NoParams) /\ UNCHANGED <<gate, saved>>

Cmd_info == Enter("info") /\ Call(InfoCommands[1], NoParams) /\ UNCHANGED <<gate, saved>>

Cmd_get_fan == Enter("get-fan") /\ Call("estats", NoParams) /\ UNCHANGED <<gate, saved>>

Cmd_get_work_mode ==
    Enter("get-work-mode") /\ Call("estats", NoParams) /\ UNCHANGED <<gate, saved>>

Cmd_get_target_temp ==
    Enter("get-target-temp") /\ Call("estats", NoParams) /\ UNCHANGED <<gate, saved>>

Cmd_get_voltage ==
    Enter("get-voltage") /\ Call("ascset", P_ReadVoltage) /\ UNCHANGED <<gate, saved>>

Cmd_reset_filter_clean ==
    Enter("reset-filter-clean") /\ Call("ascset", P_FilterClean) /\ UNCHANGED <<gate, saved>>

Cmd_set_fan_speed ==
    /\ Enter("set-fan")
    /\ LET plan == FanPlan(args)
       IN IF plan.ok THEN Call("ascset", plan.params) ELSE Exit("invalid")
    /\ UNCHANGED <<gate, saved>>

Cmd_set_work_mode ==
    /\ Enter("set-work-mode")
    /\ IF ~WorkModeValid(args.mode)
       THEN Exit("invalid")
       ELSE Call("ascset", P_WorkMode \o IntStr(args.mode))
    /\ UNCHANGED <<gate, saved>>

Cmd_set_target_temp ==
    /\ Enter("set-target-temp")
    /\ IF ~TemperatureInRange(args.temperature)
       THEN Exit("invalid")
       ELSE Call("ascset", P_TargetTemp \o IntStr(args.temperature))
    /\ UNCHANGED <<gate, saved>>

\* cmd_set_voltage up to the prompt (or past it with --force)
Cmd_set_voltage ==
    /\ Enter("set-voltage")
    /\ IF args.force
       THEN gate' = Bypassed /\ Call("ascset", P_Voltage \o IntStr(args.voltage))
       ELSE /\ gate' = Awaiting
            /\ pc' = "confirm"
            /\ UNCHANGED <<fn, target, ip, op, args, cur, opened, closed, sent, rx, eof, k, resp,
                           verdict, report, outcome>>
    /\ UNCHANGED saved

\* cmd_set_voltage: confirm = input(...)
SetVoltage_confirm ==
    /\ pc = "confirm"
    /\ op = "set-voltage"
    /\ \E answer \in Answers :
          /\ gate' = GateAfter(answer)
          /\ IF Proceeds(GateAfter(answer))
             THEN Call("ascset", P_Voltage \o IntStr(args.voltage))
             ELSE Exit("cancelled")
    /\ UNCHANGED saved

\* cmd_reboot up to the prompt (or past it with --force)
Cmd_reboot ==
    /\ Enter("reboot")
    /\ IF ~DelayInRange(args.delay)
       THEN Exit("invalid") /\ gate' = gate
       ELSE IF args.force
       THEN gate' = Bypassed /\ Call("ascset", P_Reboot \o IntStr(args.delay))
       ELSE /\ gate' = Awaiting
            /\ pc' = "confirm"
            /\ UNCHANGED <<fn, target, ip, op, args, cur, opened, closed, sent, rx, eof, k, resp,
                           verdict, report, outcome>>
    /\ UNCHANGED saved

\* cmd_reboot: confirm = input(...)
Reboot_confirm ==
    /\ pc = "confirm"
    /\ op = "reboot"
    /\ \E answer \in Answers :
          /\ gate' = GateAfter(answer)
          /\ IF Proceeds(GateAfter(answer))
             THEN Call("ascset", P_Reboot \o IntStr(args.delay))
             ELSE Exit("cancelled")
    /\ UNCHANGED saved

Cmd_set_pool ==
    /\ Enter("set-pool")
    /\ IF ~PoolIdValid(args.pool_id)
       THEN Exit("invalid")
       ELSE Call("setpool", SetPoolParams(args))
    /\ UNCHANGED <<gate, saved>>

Cmd_enable_pool ==
    /\ Enter("enable-pool")
    /\ IF ~PoolIdValid(args.pool_id)
       THEN Exit("invalid")
       ELSE Call("enablepool", IntStr(args.pool_id))
    /\ UNCHANGED <<gate, saved>>

Cmd_disable_pool ==
    /\ Enter("disable-pool")
    /\ IF ~PoolIdValid(args.pool_id)
       THEN Exit("invalid")
       ELSE Call("disablepool", IntStr(args.pool_id))
    /\ UNCHANGED <<gate, saved>>

Cmd_switch_pool ==
    /\ Enter("switch-pool")
    /\ IF ~PoolIdValid(args.pool_id)
       THEN Exit("invalid")
       ELSE Call("switchpool", IntStr(args.pool_id))
    /\ UNCHANGED <<gate, saved>>

Cmd_set_pool_priority ==
    /\ Enter("set-pool-priority")
    /\ IF ~PriorityValid(args.priority)
       THEN Exit("invalid")
       ELSE Call("poolpriority", args.priority)
    /\ UNCHANGED <<gate, saved>>

-----------------------------------------------------------------------------
(* The cmd_* functions: from a returned response to the next call or the end *)

Returned(o) == pc = "ret" /\ op = o

Version_done == Returned("version") /\ Finish(VersionResult(resp)) /\ UNCHANGED saved

Estats_done ==
    Returned("estats") /\ Finish(Res("ok", "none", ReceivedLine)) /\ UNCHANGED saved

Lcd_done == Returned("lcd") /\ Finish(LcdResult(resp)) /\ UNCHANGED saved

Pools_done == Returned("pools") /\ Finish(PoolsResult(resp)) /\ UNCHANGED saved

GetFan_done == Returned("get-fan") /\ Finish(EstatsReadResult(resp)) /\ UNCHANGED saved

GetWorkMode_done ==
    Returned("get-work-mode") /\ Finish(EstatsReadResult(resp)) /\ UNCHANGED saved

GetTargetTemp_done ==
    Returned("get-target-temp") /\ Finish(EstatsReadResult(resp)) /\ UNCHANGED saved

GetVoltage_done ==
    Returned("get-voltage") /\ Finish(GetVoltageResult(resp)) /\ UNCHANGED saved

SetFan_done == Returned("set-fan") /\ Finish(SetResult(resp)) /\ UNCHANGED saved

SetWorkMode_done ==
    Returned("set-work-mode") /\ Finish(WorkModeResult(resp)) /\ UNCHANGED saved

SetTargetTemp_done ==
    Returned("set-target-temp") /\ Finish(SetResult(resp)) /\ UNCHANGED saved

SetVoltage_done == Returned("set-voltage") /\ Finish(SetResult(resp)) /\ UNCHANGED saved

Reboot_done == Returned("reboot") /\ Finish(SetResult(resp)) /\ UNCHANGED saved

ResetFilterClean_done ==
    Returned("reset-filter-clean") /\ Finish(SetResult(resp)) /\ UNCHANGED saved

SetPool_done == Returned("set-pool") /\ Finish(PoolCommandResult(resp)) /\ UNCHANGED saved

EnablePool_done ==
    Returned("enable-pool") /\ Finish(PoolCommandResult(resp)) /\ UNCHANGED saved

DisablePool_done ==
    Returned("disable-pool") /\ Finish(PoolCommandResult(resp)) /\ UNCHANGED saved

SwitchPool_done ==
    Returned("switch-pool") /\ Finish(PoolCommandResult(resp)) /\ UNCHANGED saved

SetPoolPriority_done ==
    Returned("set-pool-priority") /\ Finish(PoolCommandResult(resp)) /\ UNCHANGED saved

\* the normalized section, or None: the `if 'X' in r and len(r['X']) > 0` blocks
OptSection(sec) == IF Present(sec) THEN Some(FirstOrSelf(sec)) ELSE None

\* cmd_summary keeps `response` and calls estats
Summary_estats ==
    /\ Returned("summary")
    /\ k = 1
    /\ saved' = <<resp>>
    /\ Call("estats", NoParams)
    /\ UNCHANGED gate

\* cmd_summary reads STATS and calls lcd
Summary_lcd ==
    /\ Returned("summary")
    /\ k = 2
    /\ saved' = Append(saved, OptSection(resp))
    /\ Call("lcd", NoParams)
    /\ UNCHANGED gate

\* cmd_summary reads LCD, then prints the report if SUMMARY is present
Summary_done ==
    /\ Returned("summary")
    /\ k = 3
    /\ saved' = Append(saved, OptSection(resp))
    /\ Finish(LET summary == OptSection(saved[1])
              IN IF summary # None
                 THEN Res("ok", "none", SectionReport(summary))
                 ELSE Res("ok", "none", NoReport))

\* ver_response.get('VERSION', [{}])[0]
InfoVersion(sec) == IF sec.t = "missing" THEN Value(EmptyDict) ELSE Subscript0(sec)

\* x = r.get('X', []); x[0] if isinstance(x, list) and len(x) > 0 else {}
ListFirstOrEmpty(sec) ==
    IF sec.t = "list" /\ Len(sec.items) > 0 THEN sec.items[1] ELSE EmptyDict

\* cmd_info: ver, then the second call
Info_second ==
    /\ Returned("info")
    /\ k = 1
    /\ LET ver == InfoVersion(resp)
       IN IF ver.exc = "none"
          THEN saved' = <<ver.v>> /\ Call(InfoCommands[2], NoParams)
          ELSE saved' = saved /\ Exit(ver.exc)
    /\ UNCHANGED gate

\* cmd_info: lcd, then the third call
Info_third ==
    /\ Returned("info")
    /\ k = 2
    /\ saved' = Append(saved, ListFirstOrEmpty(resp))
    /\ Call(InfoCommands[3], NoParams)
    /\ UNCHANGED gate

\* cmd_info: summary, then the fourth call
Info_fourth ==
    /\ Returned("info")
    /\ k = 3
    /\ saved' = Append(saved, ListFirstOrEmpty(resp))
    /\ Call(InfoCommands[4], NoParams)
    /\ UNCHANGED gate

\* cmd_info: STATS, then the printed report
Info_done ==
    /\ Returned("info")
    /\ k = 4
    /\ saved' = Append(saved, OptSection(resp))
    /\ Finish(Res("ok", "none", SectionReport(saved)))

-----------------------------------------------------------------------------

Next ==
    \/ Main_parse_args
    \/ Main_construct
    \/ Sock_connect \/ Sock_sendall \/ Sock_recv \/ Sock_append \/ Sock_close_decode
    \/ Cmd_version \/ Cmd_summary \/ Cmd_estats \/ Cmd_lcd \/ Cmd_pools \/ Cmd_info
    \/ Cmd_get_fan \/ Cmd_get_work_mode \/ Cmd_get_target_temp \/ Cmd_get_voltage
    \/ Cmd_reset_filter_clean \/ Cmd_set_fan_speed \/ Cmd_set_work_mode
    \/ Cmd_set_target_temp \/ Cmd_set_voltage \/ SetVoltage_confirm
    \/ Cmd_reboot \/ Reboot_confirm
    \/ Cmd_set_pool \/ Cmd_enable_pool \/ Cmd_disable_pool \/ Cmd_switch_pool
    \/ Cmd_set_pool_priority
    \/ Version_done \/ Estats_done \/ Lcd_done \/ Pools_done
    \/ GetFan_done \/ GetWorkMode_done \/ GetTargetTemp_done \/ GetVoltage_done
    \/ SetFan_done \/ SetWorkMode_done \/ SetTargetTemp_done \/ SetVoltage_done
    \/ Reboot_done \/ ResetFilterClean_done
    \/ SetPool_done \/ EnablePool_done \/ DisablePool_done \/ SwitchPool_done
    \/ SetPoolPriority_done
    \/ Summary_estats \/ Summary_lcd \/ Summary_done
    \/ Info_second \/ Info_third \/ Info_fourth \/ Info_done

Spec == Init /\ [][Next]_vars

\* the interpreter keeps executing the run's next statement
FairSpec == Spec /\ WF_vars(Next)

-----------------------------------------------------------------------------
(* The helper functions, each applied on its own to bounded inputs *)

FormatUptimeHoursNotReduced(seconds) ==
    LET days == seconds \div 86400
        hours == seconds \div 3600
        minutes == (seconds % 3600) \div 60
        secs == seconds % 60
    IN IntStr(days) \o <<"d", " ">> \o IntStr(hours) \o <<"h", " ">>
           \o IntStr(minutes) \o <<"m", " ">> \o IntStr(secs) \o <<"s">>

\* format_uptime
format_uptime(seconds) ==
    LET days == seconds \div 86400
        hours == (seconds % 86400) \div 3600
        minutes == (seconds % 3600) \div 60
        secs == seconds % 60
    IN IntStr(days) \o <<"d", " ">> \o IntStr(hours) \o <<"h", " ">>
           \o IntStr(minutes) \o <<"m", " ">> \o IntStr(secs) \o <<"s">>

\* the pattern field_name\[([^\]]+)\] matches at position i of the text: the
\* name, an opening bracket, one or more characters other than "]", then "]"
MatchEnd(t, name, i) ==
    LET j == i + Len(name) + 1
        stops == {c \in j..Len(t) : t[c] = "]"}
    IN IF /\ i + Len(name) <= Len(t)
          /\ SubSeq(t, i, i + Len(name) - 1) = name
          /\ t[i + Len(name)] = "["
          /\ stops # {}
       THEN LET c == CHOOSE c \in stops : \A d \in stops : c <= d
            IN IF c > j THEN c ELSE 0
       ELSE 0

\* parse_estats_field: re.search takes the leftmost match and group(1) is
\* the bracketed text; None without a match
parse_estats_field(mm_id0, field_name) ==
    LET starts == {i \in 1..Len(mm_id0) : MatchEnd(mm_id0, field_name, i) # 0}
    IN IF starts = {} THEN None
       ELSE LET i == CHOOSE i \in starts : \A j \in starts : i <= j
            IN Some(SubSeq(mm_id0, i + Len(field_name) + 1, MatchEnd(mm_id0, field_name, i) - 1))

ByteAlphabet == {"{", "}", NUL, " ", "\n", BadByte}
PackedAlphabet == {"F", "[", "]", "5"}
FieldNames == {<<"F">>}
UptimeInputs == (0..MaxSeconds) \cup {3599, 3600, 86399, 86400, 93784, 172800, 1000000}

\* the state of a run that has not started
run == <<pc, ip, op, args, gate, cur, opened, closed, sent, rx, eof, k, resp,
         saved, verdict, report, outcome, target>>

FnInit ==
    /\ pc = "lib"
    /\ ip = "192.168.1.100"
    /\ op = "version"
    /\ args = DefaultArgs
    /\ gate = NoGate
    /\ cur = NoCall
    /\ opened = 0
    /\ closed = 0
    /\ sent = << >>
    /\ rx = 0
    /\ eof = FALSE
    /\ k = 0
    /\ resp = Missing
    /\ saved = << >>
    /\ verdict = "none"
    /\ report = NoReport
    /\ outcome = "none"
    /\ target = NoTarget
    /\ \/ \E n \in UptimeInputs : fn = [NoFn EXCEPT !.f = "format_uptime", !.n = n]
       \/ \E t \in SeqsUpTo(PackedAlphabet, MaxPacked), name \in FieldNames :
             fn = [NoFn EXCEPT !.f = "parse_estats_field", !.text = t, !.name = name]
       \/ \E b \in SeqsUpTo(ByteAlphabet, MaxBytes) :
             fn = [NoFn EXCEPT !.f = "decode", !.text = b]

Apply_format_uptime ==
    /\ fn.f = "format_uptime"
    /\ ~fn.done
    /\ fn' = [fn EXCEPT !.done = TRUE,
                        !.out = [kind |-> "str", text |-> format_uptime(fn.n)]]
    /\ UNCHANGED run

Apply_parse_estats_field ==
    /\ fn.f = "parse_estats_field"
    /\ ~fn.done
    /\ LET r == parse_estats_field(fn.text, fn.name)
       IN fn' = [fn EXCEPT !.done = TRUE,
                           !.out = IF r = None
                                   THEN [kind |-> "None", text |-> NoText]
                                   ELSE [kind |-> "str", text |-> r[1]]]
    /\ UNCHANGED run

\* the decode step of send_command and its except clauses
Apply_decode ==
    /\ fn.f = "decode"
    /\ ~fn.done
    /\ fn' = [fn EXCEPT !.done = TRUE,
                        !.out = [kind |-> RaisedAs(Decode(fn.text)), text |-> NoText]]
    /\ UNCHANGED run

FnNext == Apply_format_uptime \/ Apply_parse_estats_field \/ Apply_decode

FnSpec == FnInit /\ [][FnNext]_vars

-----------------------------------------------------------------------------
(* Vocabulary of the properties *)

Done == pc = "done"

\* the run is inside a cmd_* function or past it
Dispatched == pc \notin {"argv", "start", "cmd"}

\* the names of the commands written so far
RECURSIVE CommandNames(_)
CommandNames(q) == IF q = << >> THEN << >> ELSE <<q[1].command>> \o CommandNames(Tail(q))

IsPrefixOf(a, b) == Len(a) <= Len(b) /\ \A i \in 1..Len(a) : a[i] = b[i]

NoNetwork == opened = 0 /\ sent = << >> /\ closed = 0 /\ k = 0

AscsetSetOps ==
    {"set-fan", "set-work-mode", "set-target-temp", "set-voltage", "reboot",
     "reset-filter-clean"}

PoolOps == {"set-pool", "enable-pool", "disable-pool", "switch-pool", "set-pool-priority"}

\* a single-call operation has handled its decoded response
Handled == Done /\ k = 1 /\ outcome \notin {"ConnectionError", "ValueError", "Exception"}

\* the text contains the two letters O, K next to each other
HasOK(msg) == \E i \in 1..(Len(msg) - 1) : msg[i] = "O" /\ msg[i + 1] = "K"

\* the section is the one-element list [d] or the bare object d
Carries(sec, d) == sec = ListOf(<<d>>) \/ sec = Bare(d)

\* the Msg of the STATUS section (of the first entry of a list, or of the
\* bare object), the empty text when there is none
StatusMessage(sec) ==
    CASE sec.t = "list" /\ Len(sec.items) > 0 /\ sec.items[1].has -> sec.items[1].val
      [] sec.t = "dict" /\ sec.d.has -> sec.d.val
      [] OTHER -> NoText

-----------------------------------------------------------------------------
(* C1: a caller value outside the documented range of the operation (fan     *)
(* exact 25-100; fan range min, max 25-100 and min <= max; work mode 0..2;   *)
(* target temperature 50-90; reboot delay 0-300; pool index 0..2) makes the  *)
(* operation fail, and no socket is opened and no command is sent.           *)

C1_FanExact == op = "set-fan" /\ ~args.auto /\ args.speed # None

C1_FanRange ==
    /\ op = "set-fan"
    /\ ~args.auto
    /\ args.speed = None
    /\ args.min_speed # None
    /\ args.max_speed # None

C1_OutOfRange ==
    \/ C1_FanExact /\ args.speed[1] \notin 25..100
    \/ C1_FanRange /\ \/ args.min_speed[1] \notin 25..100
                      \/ args.max_speed[1] \notin 25..100
                      \/ args.min_speed[1] > args.max_speed[1]
    \/ op = "set-work-mode" /\ args.mode \notin 0..2
    \/ op = "set-target-temp" /\ args.temperature \notin 50..90
    \/ op = "reboot" /\ args.delay \notin 0..300
    \/ op \in {"set-pool", "enable-pool", "disable-pool", "switch-pool"}
         /\ args.pool_id \notin 0..2

C1_OutOfRangeFailsBeforeIO ==
    C1_OutOfRange =>
        /\ NoNetwork
        /\ gate = NoGate
        /\ Dispatched => Done /\ outcome \in {"usage", "invalid", "invalid_ip"}

C1_Witness == C1_OutOfRange /\ Done /\ outcome = "invalid" /\ opened = 0

-----------------------------------------------------------------------------
(* C2: for the voltage-change and reboot operations the ascset command is    *)
(* sent only after the gate reached Confirmed or the bypass flag is set; a   *)
(* gate that ends in Cancelled (any answer other than yes) ends the          *)
(* operation with zero network calls.                                        *)

C2_Gated == op \in {"set-voltage", "reboot"}

C2_Affirmative == {<<"y", "e", "s">>, <<"Y", "E", "S">>, <<"Y", "e", "s">>}

C2_GateBeforeNetwork ==
    C2_Gated =>
        /\ (opened > 0 \/ sent # << >> \/ pc \in {"call", "connected", "recv", "append", "close", "ret"})
              => \/ args.force /\ gate.state = "Bypassed"
                 \/ ~args.force /\ gate.state = "Confirmed" /\ gate.answer \in C2_Affirmative
        /\ gate.state \in {"Confirmed", "Cancelled"}
              => (gate.state = "Confirmed" <=> gate.answer \in C2_Affirmative)
        /\ gate.state = "Cancelled" => Done /\ outcome = "cancelled" /\ NoNetwork
        /\ \A i \in 1..Len(sent) : sent[i].command = "ascset"

C2_Witness ==
    /\ op = "reboot"
    /\ gate.state = "Cancelled"
    /\ gate.answer = <<"n", "o">>
    /\ Done
    /\ opened = 0

-----------------------------------------------------------------------------
(* C3: the comprehensive info operation sends its four commands in exactly   *)
(* the order version, estats, summary, lcd, each one only after the previous *)
(* response has been received and decoded.                                   *)

C3_Sequential ==
    /\ Len(sent) <= k + 1
    /\ opened <= k + 1
    /\ opened - closed <= 1
    /\ pc \in {"recv", "append", "close"} => Len(sent) = k + 1

\* the claim as stated
C3_InfoOrderAsStated ==
    op = "info" =>
        /\ IsPrefixOf(CommandNames(sent), <<"version", "estats", "summary", "lcd">>)
        /\ C3_Sequential

\* amended: the order is version, lcd, summary, estats
C3_InfoOrder ==
    op = "info" =>
        /\ IsPrefixOf(CommandNames(sent), <<"version", "lcd", "summary", "estats">>)
        /\ C3_Sequential
        /\ (Done /\ outcome = "ok") => Len(sent) = 4

C3_Witness == op = "info" /\ Done /\ outcome = "ok" /\ Len(sent) = 4 /\ k = 4

-----------------------------------------------------------------------------
(* C4: every mutating command (the ascset set-operations and setpool,       *)
(* enablepool, disablepool, switchpool, poolpriority) classifies its        *)
(* outcome by one predicate: success iff the STATUS message contains "OK";  *)
(* a missing or empty STATUS, or a message without "OK", is a failure.      *)

C4_Classified ==
    /\ verdict \in {"success", "failure"}
    /\ verdict = "success" <=> HasOK(StatusMessage(resp))

\* the claim as stated
C4_AllMutatingClassified ==
    (op \in AscsetSetOps \cup PoolOps /\ Handled) => C4_Classified

\* amended: the set-operations classify by the predicate; the pool commands
\* classify nothing and print the message of a present STATUS
C4_SetOperationsClassified ==
    /\ (op \in AscsetSetOps /\ Handled) => C4_Classified
    /\ op \in PoolOps => verdict = "none"
    /\ (op \in PoolOps /\ Handled) =>
          /\ outcome = "ok"
          /\ report.kind \in {"response", "none"}
          /\ report.kind = "response" <=> Present(resp)

C4_Witness ==
    /\ op = "set-target-temp"
    /\ Handled
    /\ resp = Bare([has |-> TRUE, val |-> S_Broken, other |-> FALSE])
    /\ verdict = "success"

-----------------------------------------------------------------------------
(* C5: a mutating operation whose STATUS message does not contain "OK"      *)
(* reports the device's Msg text verbatim, both when STATUS is a one-element *)
(* list and when it is a bare object; it never ends in an unrelated error.  *)

C5_RejectionReportedVerbatim ==
    \A d \in Dicts :
        (/\ op \in AscsetSetOps \cup PoolOps
         /\ Handled
         /\ Carries(resp, d)
         /\ d.has
         /\ ~HasOK(d.val))
        => outcome = "ok" /\ report.text = d.val

-----------------------------------------------------------------------------
(* C6: for every section an operation reads, the one-element list [obj] and *)
(* the bare object obj yield the same normalized object obj and the same    *)
(* result; a missing section or an empty list yields absent.                *)

C6_SectionReaders ==
    {"version", "lcd", "get-fan", "get-work-mode", "get-target-temp"}

C6_ListAndBareAgree ==
    /\ \A d \in Dicts :
         (/\ op \in C6_SectionReaders
          /\ Handled
          /\ Carries(resp, d)
          /\ d.has)
         => outcome = "ok" /\ report = SectionReport(<<d>>)
    /\ (op \in C6_SectionReaders /\ Handled /\ resp \in {Missing, ListOf(<< >>)})
         => outcome = "ok" /\ report = NoReport

-----------------------------------------------------------------------------
(* C7: section normalization never raises: for a missing key, an empty      *)
(* list, a non-empty list and a bare object, and for every operation that   *)
(* reads a section, no exception aborts the operation.                      *)

C7_NormalizationNeverRaises ==
    outcome \notin {"KeyError", "IndexError", "AttributeError"}

-----------------------------------------------------------------------------
(* C8: a read operation (version, summary, lcd, pools, get-fan,             *)
(* get-work-mode, get-target-temp) whose decoded response lacks the section *)
(* it expects ends in an UnexpectedShape failure; it never completes as if  *)
(* the section were merely empty.                                           *)

C8_SingleCallReads ==
    {"version", "lcd", "pools", "get-fan", "get-work-mode", "get-target-temp"}

\* every round-trip of the read operation succeeded and the expected section
\* is not in the response
C8_SectionMissing ==
    \/ op \in C8_SingleCallReads /\ Handled /\ resp = Missing
    \/ op = "summary" /\ Done /\ k = 3 /\ Len(saved) = 3 /\ saved[1] = Missing

\* the claim as stated
C8_MissingSectionFails == C8_SectionMissing => outcome # "ok"

\* amended: the operation completes normally and prints no report
C8_MissingSectionIsSilent ==
    C8_SectionMissing => outcome = "ok" /\ report = NoReport /\ verdict = "none"

C8_Witness == op = "get-fan" /\ C8_SectionMissing /\ outcome = "ok"

-----------------------------------------------------------------------------
(* C9: when the connection is established and the command is sent but the   *)
(* device never sends a byte and never closes the socket, send_command      *)
(* fails with a connection-kind failure.                                    *)

\* the run ended in a call that did not return, whose command was sent and
\* whose reads all timed out: nothing was received, the peer neither closed
\* nor reset the connection
C9_SilentPeer ==
    /\ Done
    /\ opened > k
    /\ Len(sent) = opened
    /\ rx = 0
    /\ ~eof
    /\ closed = opened

C9_SilentPeerIsConnectionError == C9_SilentPeer => outcome = "ConnectionError"

-----------------------------------------------------------------------------
(* C10: every send_command call eventually terminates, whatever the peer    *)
(* does, including a peer that keeps delivering chunks and never closes.    *)

C10_InSendCommand == pc \in {"call", "connected", "recv", "append", "close"}

C10_SendCommandTerminates == C10_InSendCommand ~> ~C10_InSendCommand

-----------------------------------------------------------------------------
(* C11: every send_command call opens exactly one socket, and that socket   *)
(* is closed by the time the call ends, on every path: success, connect     *)
(* timeout, connect refusal, send failure and malformed response.           *)

C11_SocketClosedWhenCallEnds ==
    /\ opened <= k + 1
    /\ ~C10_InSendCommand => closed = opened

-----------------------------------------------------------------------------
(* C12: for every reply made of a valid JSON object followed by padding of  *)
(* NUL bytes and whitespace characters in any order (and optionally         *)
(* preceded by whitespace), decoding strips all of the padding and returns  *)
(* the JSON object.                                                         *)

\* the reply is whitespace, the JSON document, then NUL bytes and whitespace
C12_PaddedJson(b) ==
    \E i \in 1..Len(b) :
        /\ i + 1 <= Len(b)
        /\ b[i] = "{"
        /\ b[i + 1] = "}"
        /\ \A j \in 1..(i - 1) : IsSpace(b[j])
        /\ \A j \in (i + 2)..Len(b) : b[j] = NUL \/ IsSpace(b[j])

C12_PaddingStripped ==
    (fn.f = "decode" /\ fn.done /\ C12_PaddedJson(fn.text)) => fn.out.kind = "none"

-----------------------------------------------------------------------------
(* C13: every failure of send_command is of one of two kinds: a connection  *)
(* failure for socket-level faults, or a malformed-response failure when    *)
(* the received bytes cannot be parsed as JSON after de-padding (padding    *)
(* only, or bytes that are not decodable text); none is collapsed into the  *)
(* generic error kind.                                                      *)

\* the run ended inside a send_command call, which raised
C13_CallFailed == Done /\ opened > k

C13_TwoFailureKinds ==
    C13_CallFailed =>
        /\ outcome \in {"ConnectionError", "ValueError"}
        /\ closed < opened => outcome = "ConnectionError"

-----------------------------------------------------------------------------
(* C14: for every packed string and field name the extractor returns the    *)
(* text between the first occurrence of name[ and the next ] after it (the  *)
(* empty text when that occurrence is name[]), whatever occurs later, and   *)
(* returns absent when name[ does not occur.                                *)

\* the literal text name[ starts at position i
C14_OccursAt(t, name, i) ==
    /\ i + Len(name) <= Len(t)
    /\ SubSeq(t, i, i + Len(name) - 1) = name
    /\ t[i + Len(name)] = "["

C14_Occurrences(t, name) == {i \in 1..Len(t) : C14_OccursAt(t, name, i)}

C14_First(t, name) ==
    CHOOSE i \in C14_Occurrences(t, name) : \A j \in C14_Occurrences(t, name) : i <= j

\* the positions of a ] after the bracket opened at the first occurrence
C14_Closers(t, name) ==
    {c \in (C14_First(t, name) + Len(name) + 1)..Len(t) : t[c] = "]"}

C14_FirstMatchWins ==
    (fn.f = "parse_estats_field" /\ fn.done) =>
        IF C14_Occurrences(fn.text, fn.name) = {}
        THEN fn.out.kind = "None"
        ELSE C14_Closers(fn.text, fn.name) # {} =>
                LET c == CHOOSE c \in C14_Closers(fn.text, fn.name) :
                             \A d \in C14_Closers(fn.text, fn.name) : c <= d
                IN /\ fn.out.kind = "str"
                   /\ fn.out.text =
                        SubSeq(fn.text, C14_First(fn.text, fn.name) + Len(fn.name) + 1, c - 1)

-----------------------------------------------------------------------------
(* C15: in fan range mode, for all p1 <= p2 with both in 25..100 the        *)
(* parameter sent with ascset is exactly 0,fan-spd,<p1>..<p2>; for p1 > p2  *)
(* the operation fails before anything is encoded or sent.                  *)

\* the caller asks for range mode: a minimum and a maximum, nothing else
C15_RangeMode ==
    /\ op = "set-fan"
    /\ ~args.auto
    /\ args.speed = None
    /\ args.min_speed # None
    /\ args.max_speed # None

C15_ValidRange ==
    /\ C15_RangeMode
    /\ args.min_speed[1] \in 25..100
    /\ args.max_speed[1] \in 25..100
    /\ args.min_speed[1] <= args.max_speed[1]

C15_RangeParam ==
    <<"0", ",", "f", "a", "n", "-", "s", "p", "d", ",">>
        \o IntStr(args.min_speed[1]) \o <<".", ".">> \o IntStr(args.max_speed[1])

C15_RangeParameterSent ==
    /\ C15_ValidRange =>
          /\ outcome \notin {"usage", "invalid"}
          /\ \A i \in 1..Len(sent) :
                sent[i] = [command |-> "ascset", params |-> C15_RangeParam]
    /\ (C15_RangeMode /\ args.min_speed[1] > args.max_speed[1]) =>
          /\ NoNetwork
          /\ pc \in {"argv", "start", "cmd", "done"}
          /\ Done => outcome \in {"usage", "invalid", "invalid_ip"}

-----------------------------------------------------------------------------
(* C16: when the caller gives mutually exclusive fan options together (auto *)
(* with an exact speed, auto with a min/max range, or an exact speed with a *)
(* min/max range) the fan operation fails as an invalid parameter and sends *)
(* no command; it never silently picks one of the options.                  *)

C16_RangeGiven == args.min_speed # None /\ args.max_speed # None

C16_Conflicting ==
    /\ op = "set-fan"
    /\ \/ args.auto /\ args.speed # None
       \/ args.auto /\ C16_RangeGiven
       \/ args.speed # None /\ C16_RangeGiven

C16_ConflictRejected ==
    C16_Conflicting =>
        /\ opened = 0
        /\ sent = << >>
        /\ cur = NoCall
        /\ Done => outcome \in {"usage", "invalid", "invalid_ip"}

-----------------------------------------------------------------------------
(* C17: a client whose address is not a private-network IP literal is never *)
(* constructed: construction fails and in that run no socket is opened; in  *)
(* every run every connect targets the private address and the port given   *)
(* at construction, which no operation changes.                             *)

C17_PrivateLiterals == {"192.168.1.100"}

C17_Endpoint ==
    /\ ip \notin C17_PrivateLiterals =>
          /\ pc \in {"argv", "start", "done"}
          /\ Done => outcome \in {"usage", "invalid_ip"}
          /\ opened = 0
          /\ sent = << >>
          /\ target = NoTarget
    /\ opened > 0 =>
          /\ ip \in C17_PrivateLiterals
          /\ target = [ip |-> ip, port |-> args.port]

C17_PrivateEndpointOnly ==
    /\ []C17_Endpoint
    /\ [][ip' = ip /\ args'.port = args.port]_vars

C17_Witness == ip = "8.8.8.8" /\ Done /\ outcome = "invalid_ip" /\ opened = 0

-----------------------------------------------------------------------------
(* C18: for every non-negative number of seconds n the uptime formatter     *)
(* yields d, h, m, s with 0 <= h < 24, 0 <= m < 60, 0 <= s < 60 and         *)
(* d*86400 + h*3600 + m*60 + s = n; 93784 gives 1d 2h 3m 4s.                *)

\* the text split at its spaces
RECURSIVE C18_Words(_)
C18_Words(t) ==
    IF \A i \in 1..Len(t) : t[i] # " "
    THEN <<t>>
    ELSE LET i == CHOOSE i \in 1..Len(t) : t[i] = " " /\ \A j \in 1..(i - 1) : t[j] # " "
         IN <<SubSeq(t, 1, i - 1)>> \o C18_Words(SubSeq(t, i + 1, Len(t)))

C18_Digits == {"0", "1", "2", "3", "4", "5", "6", "7", "8", "9"}

\* the number a text of decimal digits denotes
RECURSIVE C18_NatOf(_)
C18_NatOf(t) ==
    IF t = << >> THEN 0
    ELSE C18_NatOf(SubSeq(t, 1, Len(t) - 1)) * 10
             + (CHOOSE d \in 0..9 : DigitChar(d) = t[Len(t)])

\* the word is a decimal number without leading zeros followed by the unit
C18_IsField(w, unit) ==
    /\ Len(w) >= 2
    /\ w[Len(w)] = unit
    /\ \A i \in 1..(Len(w) - 1) : w[i] \in C18_Digits
    /\ Len(w) > 2 => w[1] # "0"

C18_Number(w) == C18_NatOf(SubSeq(w, 1, Len(w) - 1))

C18_UptimeDecomposes ==
    (fn.f = "format_uptime" /\ fn.done) =>
        LET w == C18_Words(fn.out.text)
        IN /\ Len(w) = 4
           /\ C18_IsField(w[1], "d")
           /\ C18_IsField(w[2], "h")
           /\ C18_IsField(w[3], "m")
           /\ C18_IsField(w[4], "s")
           /\ C18_Number(w[2]) < 24
           /\ C18_Number(w[3]) < 60
           /\ C18_Number(w[4]) < 60
           /\ C18_Number(w[1]) * 86400 + C18_Number(w[2]) * 3600
                 + C18_Number(w[3]) * 60 + C18_Number(w[4]) = fn.n
           /\ fn.n = 93784 =>
                 fn.out.text = <<"1", "d", " ", "2", "h", " ", "3", "m", " ", "4", "s">>

C18_Witness ==
    /\ fn.f = "format_uptime"
    /\ fn.done
    /\ fn.n = 93784
    /\ fn.out.text = <<"1", "d", " ", "2", "h", " ", "3", "m", " ", "4", "s">>

-----------------------------------------------------------------------------
(* C19: in every run no command is sent more than once: a mutating          *)
(* operation performs at most one round-trip, and after a round-trip fails  *)
(* (transport, decode or device rejection) no further command is sent, the  *)
(* remaining commands of summary or info included.                          *)

C19_AtMostOnce ==
    /\ \A i, j \in 1..Len(sent) : i # j => sent[i] # sent[j]
    /\ opened <= k + 1
    /\ Len(sent) <= opened
    /\ op \in AscsetSetOps \cup PoolOps => opened <= 1 /\ k <= 1
    /\ (Done /\ outcome \in {"ConnectionError", "ValueError", "Exception"}) =>
          opened = k + 1

C19_NoRetry ==
    /\ []C19_AtMostOnce
    /\ [][Done => (sent' = sent /\ opened' = opened)]_vars

C19_Witness ==
    /\ op = "summary"
    /\ Done
    /\ outcome = "ValueError"
    /\ k = 1
    /\ opened = 2
    /\ CommandNames(sent) = <<"summary", "estats">>

-----------------------------------------------------------------------------
(* C20: every parameter sent with the poolpriority command is a             *)
(* comma-joined list of pool indices, each element exactly one of 0, 1, 2   *)
(* with no other characters; any caller value not of that form is rejected  *)
(* before any command is sent.                                              *)

\* a comma-joined list whose elements are exactly 0, 1 or 2
C20_WellFormed(q) ==
    \A i \in 1..Len(SplitComma(q)) : SplitComma(q)[i] \in {<<"0">>, <<"1">>, <<"2">>}

C20_PriorityWellFormed ==
    /\ \A i \in 1..Len(sent) :
          sent[i].command = "poolpriority" => C20_WellFormed(sent[i].params)
    /\ (op = "set-pool-priority" /\ ~C20_WellFormed(args.priority)) =>
          /\ NoNetwork
          /\ cur = NoCall
          /\ Done => outcome \in {"invalid", "invalid_ip"}

====
